---- MODULE Spec2Model ----
(***************************************************************************)
(* Model of src/main.py: a bot that watches one document at GITHUB_URL and *)
(* relays it to one Telegram chat.                                         *)
(*                                                                         *)
(* The process runs three kinds of threads over one shared DocumentState:  *)
(* the BackgroundScheduler's job thread (check_and_send, daily) and the    *)
(* worker threads of the threaded TeleBot, which run the message and       *)
(* callback handlers; one worker of the pool is modelled.  Every read or   *)
(* write of the shared state, of the state file, of the remote document    *)
(* and of the chat is one step.                                            *)
(***************************************************************************)
EXTENDS Integers, Sequences, FiniteSets, TLC

(***************************************************************************)
(* Bounds of the model.                                                    *)
(***************************************************************************)
\* datetime.now() is read from a clock that stops advancing at MaxClock.
MaxClock == 2

(***************************************************************************)
(* Values.                                                                 *)
(***************************************************************************)
None == <<"None">>

\* A local `content` that is not bound yet.
Unbound == "<unbound>"

\* TELEGRAM_CHAT_ID, an environment string (line 18).
CHAT_ID == "1001"

\* The chat ids (integers, message.chat.id) that messages arrive from: the
\* configured one and a foreign one.
Chats == {1001, 2002}

DOCUMENT_NAME == "github_document.txt"

\* The texts the remote document takes.
Contents == {"v1", "v2-long"}

Scheduler == "scheduler"
Workers == {"worker1"}
Threads == {Scheduler} \cup Workers

VARIABLES
    running,     \* the process is up (FALSE once startup died in load())
    clock,       \* the wall clock, in seconds
    remote,      \* the text served at GITHUB_URL
    state,       \* the DocumentState object: last_check_at, last_send_at, last_hash
    file,        \* state.json on disk
    pc,          \* per thread: where it stands
    req,         \* per thread: the trigger it serves
    content,     \* per thread: the local `content` of the running cycle
    delivered,   \* per thread: what the running cycle delivered to the chat
    result,      \* per thread: how the cycle or handler ended
    resp,        \* per thread: what the handler answered to the invoker
    alone,       \* per thread: no other cycle was in flight since this one began
    pre,         \* per thread, while alone: state, file and prev when the cycle began
    prev         \* the check_and_send() that ended last (returned, or failed
                 \* to deliver), run alone, while no cycle began since

vars == <<running, clock, remote, state, file, pc, req, content, delivered,
          result, resp, alone, pre, prev>>

(***************************************************************************)
(* DocumentState (lines 35-76).                                            *)
(***************************************************************************)
\* __init__ (lines 47-49): the three fields before load().
DocumentState == [last_check_at |-> None, last_send_at |-> None, last_hash |-> None]

\* The file on disk: missing, empty (opened for writing, nothing flushed
\* yet), or a JSON document.
NoFile == <<"missing">>
EmptyFile == <<"empty">>

\* json.dump of one value: None becomes null, a str a JSON string.
JsonValue(v) == IF v = None THEN <<"null">> ELSE <<"string", v>>

\* json.load of one value.
PyValue(j) == IF j = <<"null">> THEN None ELSE j[2]

\* json.dump of lines 67-76: the document written for the fields of s.
dump(s) ==
    <<"json", [last_check_at |-> JsonValue(s.last_check_at),
               last_send_at |-> JsonValue(s.last_send_at),
               last_hash |-> JsonValue(s.last_hash)]>>

\* load() can read f: the file is missing (line 54) or json.load parses it
\* (line 58).
Loadable(f) == f = NoFile \/ f[1] = "json"

\* load() (lines 52-62) into a fresh DocumentState, for a loadable file.
load(f) ==
    IF f = NoFile
    THEN DocumentState
    ELSE [last_check_at |-> PyValue(f[2].last_check_at),
          last_send_at |-> PyValue(f[2].last_send_at),
          last_hash |-> PyValue(f[2].last_hash)]

(***************************************************************************)
(* GitHubDocumentWatcher helpers (lines 97-103).                           *)
(***************************************************************************)
\* _now(): the formatted wall clock, to the second.
_now == <<"time", clock>>

\* _hash(): the SHA-256 hex digest of the text; distinct for distinct texts.
_hash(c) == <<"sha256", c>>

(***************************************************************************)
(* Thread-local bookkeeping.                                               *)
(***************************************************************************)
NoReq == [via |-> "none", handler |-> "none", chat |-> 0, op |-> "none"]
NoPrev == [op |-> "none", result |-> "none", content |-> Unbound, sent |-> 0,
           hash_before |-> None, hash_after |-> None]
NoPre == [state |-> DocumentState, file |-> NoFile, prev |-> NoPrev]

\* The positions inside check_and_send() and force_send().
CyclePcs == {"cs130", "cs132", "cs135", "cs137", "cs137w", "cs140", "cs142",
             "cs143", "cs144", "cs144w",
             "fs154", "fs156", "fs157", "fs159", "fs160", "fs161", "fs161w"}

InCycle(t) == pc[t] \in CyclePcs

Init ==
    /\ running = TRUE
    /\ clock = 1
    /\ remote \in Contents
    /\ state = DocumentState
    /\ file = NoFile
    /\ pc = [t \in Threads |-> "idle"]
    /\ req = [t \in Threads |-> NoReq]
    /\ content = [t \in Threads |-> Unbound]
    /\ delivered = [t \in Threads |-> <<>>]
    /\ result = [t \in Threads |-> "none"]
    /\ resp = [t \in Threads |-> "none"]
    /\ alone = [t \in Threads |-> TRUE]
    /\ pre = [t \in Threads |-> NoPre]
    /\ prev = NoPrev

(***************************************************************************)
(* Bookkeeping of cycles: one cycle is one run of check_and_send() or of   *)
(* force_send().                                                           *)
(***************************************************************************)
\* Thread t enters a cycle.  When no other cycle is in flight it is alone and
\* notes what it starts from: the state, the file and the cycle that ended
\* last.  Every other thread that has not yet left its own cycle is no longer
\* alone, and what it noted is dropped.
Begin(t) ==
    LET free == \A v \in Threads \ {t} : ~InCycle(v)
    IN /\ alone' = [u \in Threads |->
                       IF u = t THEN free
                       ELSE IF pc[u] = "idle" THEN alone[u] ELSE FALSE]
       /\ pre' = [u \in Threads |->
                     IF u = t /\ free
                     THEN [state |-> state, file |-> file, prev |-> prev]
                     ELSE NoPre]
       /\ prev' = NoPrev

\* Handlers without the except clauses of lines 259-261 and 272-274.
ReplyOnReturnOnly(r, res) ==
    IF r.handler = "check" /\ res \in {"unchanged", "sent"} THEN "completed"
    ELSE "none"

\* What the handler that called the cycle tells the invoker when the cycle
\* ended with res: check() replies on return (line 271) and on an exception
\* (line 274), send_now() only on an exception (line 261), and the scheduler
\* job has no invoker.
Reply(r, res) ==
    IF r.via = "job" THEN "none"
    ELSE IF res \in {"FetchError", "DeliveryError"} THEN "error"
    ELSE IF r.handler = "check" THEN "completed"
    ELSE "none"

\* The cycle of thread t ends with res (returns, or raises to its caller).
End(t, res) ==
    /\ pc' = [pc EXCEPT ![t] = IF res \in {"FetchError", "DeliveryError"}
                               THEN "raised" ELSE "returned"]
    /\ result' = [result EXCEPT ![t] = res]
    /\ resp' = [resp EXCEPT ![t] = Reply(req[t], res)]
    /\ prev' = IF alone[t] /\ req[t].op = "check_and_send"
                     /\ res \in {"unchanged", "sent", "DeliveryError"}
               THEN [op |-> req[t].op, result |-> res, content |-> content[t],
                     sent |-> Len(delivered[t]),
                     hash_before |-> pre[t].state.last_hash,
                     hash_after |-> state.last_hash]
               ELSE NoPrev

(***************************************************************************)
(* DocumentState.save (lines 64-76), in two steps: open(path, "w")         *)
(* truncates the file; the document is flushed when the with-block closes  *)
(* it.                                                                     *)
(***************************************************************************)
save_open(t, at, next) ==
    /\ running /\ pc[t] = at
    /\ file' = EmptyFile
    /\ pc' = [pc EXCEPT ![t] = next]
    /\ UNCHANGED <<running, clock, remote, state, req, content, delivered,
                   result, resp, alone, pre, prev>>

save_write(t, at, res) ==
    /\ running /\ pc[t] = at
    /\ file' = dump(state)
    /\ End(t, res)
    /\ UNCHANGED <<running, clock, remote, state, req, content, delivered,
                   alone, pre>>

(***************************************************************************)
(* GitHubDocumentWatcher.fetch (lines 105-110) and send (lines 112-121).   *)
(***************************************************************************)
\* requests.get returns the text now served, or raises (timeout, non-2xx).
fetch(t, at, next) ==
    /\ running /\ pc[t] = at
    /\ \/ /\ content' = [content EXCEPT ![t] = remote]
          /\ pc' = [pc EXCEPT ![t] = next]
          /\ UNCHANGED <<result, resp, prev>>
       \/ /\ End(t, "FetchError")
          /\ UNCHANGED content
    /\ UNCHANGED <<running, clock, remote, state, file, req, delivered, alone, pre>>

\* The size from which a text no longer fits a plain message (spec, 4.2).
SizeThreshold == 3

\* A send() that picks the delivery by size.
DocumentBySize(c) ==
    IF Len(c) < SizeThreshold
    THEN [chat |-> CHAT_ID, mode |-> "text", name |-> "", body |-> c, caption |-> ""]
    ELSE [chat |-> CHAT_ID, mode |-> "document", name |-> DOCUMENT_NAME,
          body |-> c, caption |-> "updated"]

\* The message send() hands to bot.send_document: always a file named
\* DOCUMENT_NAME holding the text, with the fixed caption.
Document(c) ==
    [chat |-> CHAT_ID, mode |-> "document", name |-> DOCUMENT_NAME,
     body |-> c, caption |-> "updated"]

\* send_document delivers the message, or raises.
send(t, at, next) ==
    /\ running /\ pc[t] = at
    /\ \/ /\ delivered' = [delivered EXCEPT ![t] = Append(@, Document(content[t]))]
          /\ pc' = [pc EXCEPT ![t] = next]
          /\ UNCHANGED <<result, resp, prev>>
       \/ /\ End(t, "DeliveryError")
          /\ UNCHANGED delivered
    /\ UNCHANGED <<running, clock, remote, state, file, req, content, alone, pre>>

\* An assignment to one field of self.state.
assign(t, at, next, field, value) ==
    /\ running /\ pc[t] = at
    /\ state' = [state EXCEPT ![field] = value]
    /\ pc' = [pc EXCEPT ![t] = next]
    /\ UNCHANGED <<running, clock, remote, file, req, content, delivered,
                   result, resp, alone, pre, prev>>

(***************************************************************************)
(* GitHubDocumentWatcher.check_and_send (lines 123-146).                   *)
(***************************************************************************)
\* A slip at line 130: the time of the check goes to the wrong field.
check_and_send_now_as_sent(t) ==
    assign(t, "cs130", "cs132", "last_send_at", _now)

\* line 130
check_and_send_now(t) == assign(t, "cs130", "cs132", "last_check_at", _now)

\* lines 132-133
check_and_send_fetch(t) == fetch(t, "cs132", "cs135")

\* A slip in the test of line 135: the digest is compared with the wrong field.
UnchangedWrongField(c, s) == _hash(c) = s.last_send_at

\* The test of line 135.
Unchanged(c, s) == _hash(c) = s.last_hash

\* line 135
check_and_send_compare(t) ==
    /\ running /\ pc[t] = "cs135"
    /\ pc' = [pc EXCEPT ![t] = IF Unchanged(content[t], state) THEN "cs137" ELSE "cs140"]
    /\ UNCHANGED <<running, clock, remote, state, file, req, content, delivered,
                   result, resp, alone, pre, prev>>

\* A slip at lines 137-138: an unchanged document returns without save().
check_and_send_return_unsaved(t) ==
    /\ running /\ pc[t] = "cs137"
    /\ End(t, "unchanged")
    /\ UNCHANGED <<running, clock, remote, state, file, req, content, delivered,
                   alone, pre>>

\* lines 137-138
check_and_send_save_unchanged(t) ==
    \/ save_open(t, "cs137", "cs137w")
    \/ save_write(t, "cs137w", "unchanged")

\* A slip at line 140: last_hash is stored before the text is sent.
check_and_send_send_hash_first(t) ==
    /\ running /\ pc[t] = "cs140"
    /\ state' = [state EXCEPT !.last_hash = _hash(content[t])]
    /\ \/ /\ delivered' = [delivered EXCEPT ![t] = Append(@, Document(content[t]))]
          /\ pc' = [pc EXCEPT ![t] = "cs142"]
          /\ UNCHANGED <<result, resp, prev>>
       \/ /\ End(t, "DeliveryError")
          /\ UNCHANGED delivered
    /\ UNCHANGED <<running, clock, remote, file, req, content, alone, pre>>

\* line 140
check_and_send_send(t) == send(t, "cs140", "cs142")

\* A slip at line 142: the digest of the sent text is not stored.
check_and_send_hash_kept(t) ==
    assign(t, "cs142", "cs143", "last_hash", state.last_hash)

\* line 142
check_and_send_hash(t) ==
    assign(t, "cs142", "cs143", "last_hash", _hash(content[t]))

\* line 143
check_and_send_sent_at(t) == assign(t, "cs143", "cs144", "last_send_at", _now)

\* line 144
check_and_send_save(t) ==
    \/ save_open(t, "cs144", "cs144w")
    \/ save_write(t, "cs144w", "sent")

check_and_send(t) ==
    \/ check_and_send_now(t)
    \/ check_and_send_fetch(t)
    \/ check_and_send_compare(t)
    \/ check_and_send_save_unchanged(t)
    \/ check_and_send_send(t)
    \/ check_and_send_hash(t)
    \/ check_and_send_sent_at(t)
    \/ check_and_send_save(t)

(***************************************************************************)
(* GitHubDocumentWatcher.force_send (lines 148-161).                       *)
(***************************************************************************)
\* line 154
force_send_now(t) == assign(t, "fs154", "fs156", "last_check_at", _now)

\* line 156
force_send_fetch(t) == fetch(t, "fs156", "fs157")

\* A slip at line 157: the forced send skips a document that did not change.
force_send_send_if_changed(t) ==
    IF pc[t] = "fs157" /\ Unchanged(content[t], state)
    THEN /\ running
         /\ pc' = [pc EXCEPT ![t] = "fs159"]
         /\ UNCHANGED <<running, clock, remote, state, file, req, content,
                        delivered, result, resp, alone, pre, prev>>
    ELSE send(t, "fs157", "fs159")

\* line 157
force_send_send(t) == send(t, "fs157", "fs159")

\* line 159
force_send_hash(t) == assign(t, "fs159", "fs160", "last_hash", _hash(content[t]))

\* line 160
force_send_sent_at(t) == assign(t, "fs160", "fs161", "last_send_at", _now)

\* line 161
force_send_save(t) ==
    \/ save_open(t, "fs161", "fs161w")
    \/ save_write(t, "fs161w", "sent")

force_send(t) ==
    \/ force_send_now(t)
    \/ force_send_fetch(t)
    \/ force_send_send(t)
    \/ force_send_hash(t)
    \/ force_send_sent_at(t)
    \/ force_send_save(t)

(***************************************************************************)
(* TelegramBotApp (lines 164-292).                                         *)
(***************************************************************************)
\* _is_authorized (lines 187-189): str(chat_id) == str(CHAT_ID), for an
\* integer chat id and the configured string.
_is_authorized(chat_id) == ToString(chat_id) = CHAT_ID

\* The cron job of _register_jobs (lines 213-220): the scheduler's thread
\* calls check_and_send(); one instance of the job runs at a time.
job ==
    /\ running /\ pc[Scheduler] = "idle"
    /\ req' = [req EXCEPT ![Scheduler] =
                  [via |-> "job", handler |-> "job", chat |-> 0,
                   op |-> "check_and_send"]]
    /\ pc' = [pc EXCEPT ![Scheduler] = "cs130"]
    /\ Begin(Scheduler)
    /\ UNCHANGED <<running, clock, remote, state, file, content, delivered,
                   result, resp>>

\* The commands of the handlers (lines 225, 240, 251, 263) and the callback
\* data a client can send: the three of the keyboard (lines 196-198) and
\* any other string.
Commands == {"start", "status", "send_now", "check"}
CallbackData == {"status", "send_now", "check", "other"}

\* infinity_polling (line 292) hands an update to a worker thread: a
\* command message, or a callback query with its data, from a chat.
update(t, kind, name, chat) ==
    /\ running /\ pc[t] = "idle"
    /\ pc' = [pc EXCEPT ![t] = kind]
    /\ req' = [req EXCEPT ![t] = [via |-> kind, handler |-> name, chat |-> chat,
                                  op |-> "none"]]
    /\ UNCHANGED <<running, clock, remote, state, file, content, delivered,
                   result, resp, alone, pre, prev>>

\* A handler that ends in one step, with what it told the invoker.
Answer(t, res, said) ==
    /\ pc' = [pc EXCEPT ![t] = "handled"]
    /\ result' = [result EXCEPT ![t] = res]
    /\ resp' = [resp EXCEPT ![t] = said]
    /\ UNCHANGED <<running, clock, remote, state, file, req, content, delivered,
                   alone, pre, prev>>

\* start (lines 225-238): the greeting with the keyboard.
start(t) == Answer(t, "ok", "menu")

\* A status that answers the configured chat only.
status_gated(t) ==
    IF _is_authorized(req[t].chat) THEN Answer(t, "ok", "status")
    ELSE Answer(t, "refused", "access denied")

\* status (lines 240-249): the three fields, to any chat.
status(t) == Answer(t, "ok", "status")

\* bot.answer_callback_query(id, text, show_alert=True) shows the alert to
\* the user whose callback query `id` names; for any other id the Bot API
\* rejects the call and the library raises.
answer_callback_query(id) == IF id = "callback_query" THEN "alert" ELSE "ApiError"

\* The refusal of lines 253-255 and 265-267: the handler answers a callback
\* query named by message.id, the id of a message.
Refuse(t) ==
    LET out == answer_callback_query("message")
    IN Answer(t, IF out = "alert" THEN "refused" ELSE out,
              IF out = "alert" THEN "access denied" ELSE "none")

\* An authorized handler calls the watcher's method op, which starts at `to`.
Enter(t, op, to) ==
    /\ pc' = [pc EXCEPT ![t] = to]
    /\ req' = [req EXCEPT ![t].op = op]
    /\ Begin(t)
    /\ UNCHANGED <<running, clock, remote, state, file, content, delivered,
                   result, resp>>

\* send_now (lines 251-261), called with a message
send_now(t) ==
    IF ~_is_authorized(req[t].chat) THEN Refuse(t) ELSE Enter(t, "force_send", "fs154")

\* check (lines 263-274), called with a message
check(t) ==
    IF ~_is_authorized(req[t].chat) THEN Refuse(t) ELSE Enter(t, "check_and_send", "cs130")

\* The message handlers as the bot routes a command to them.
command_handler(t) ==
    /\ running /\ pc[t] = "command"
    /\ \/ req[t].handler = "start" /\ start(t)
       \/ req[t].handler = "status" /\ status(t)
       \/ req[t].handler = "send_now" /\ send_now(t)
       \/ req[t].handler = "check" /\ check(t)

\* A callback_handler that calls the watcher itself, without the handlers'
\* check of the chat.
callback_handler_unchecked(t) ==
    /\ running /\ pc[t] = "callback"
    /\ IF req[t].handler = "status" THEN status(t)
       ELSE IF req[t].handler = "send_now" THEN Enter(t, "force_send", "fs154")
       ELSE IF req[t].handler = "check" THEN Enter(t, "check_and_send", "cs130")
       ELSE Answer(t, "ignored", "none")

\* callback_handler (lines 276-284): call.data picks the handler, which is
\* called with call.message; other data are ignored.
callback_handler(t) ==
    /\ running /\ pc[t] = "callback"
    /\ IF req[t].handler = "status" THEN status(t)
       ELSE IF req[t].handler = "send_now" THEN send_now(t)
       ELSE IF req[t].handler = "check" THEN check(t)
       ELSE Answer(t, "ignored", "none")

\* The thread is done with its trigger and waits for the next.
Finish(t) ==
    /\ running /\ pc[t] \in {"handled", "returned", "raised"}
    /\ pc' = [pc EXCEPT ![t] = "idle"]
    /\ req' = [req EXCEPT ![t] = NoReq]
    /\ content' = [content EXCEPT ![t] = Unbound]
    /\ delivered' = [delivered EXCEPT ![t] = <<>>]
    /\ result' = [result EXCEPT ![t] = "none"]
    /\ resp' = [resp EXCEPT ![t] = "none"]
    /\ alone' = [alone EXCEPT ![t] = TRUE]
    /\ pre' = [pre EXCEPT ![t] = NoPre]
    /\ UNCHANGED <<running, clock, remote, state, file, prev>>

(***************************************************************************)
(* The environment.                                                        *)
(***************************************************************************)
\* A second passes.
Tick ==
    /\ clock < MaxClock
    /\ clock' = clock + 1
    /\ UNCHANGED <<running, remote, state, file, pc, req, content, delivered,
                   result, resp, alone, pre, prev>>

\* The document at GITHUB_URL is edited.
RemoteChange ==
    /\ remote' \in Contents \ {remote}
    /\ UNCHANGED <<running, clock, state, file, pc, req, content, delivered,
                   result, resp, alone, pre, prev>>

\* A start that falls back to the empty state when load() cannot read the file.
RestartWithDefault ==
    /\ running
    /\ running' = TRUE
    /\ state' = IF Loadable(file) THEN load(file) ELSE DocumentState
    /\ pc' = [t \in Threads |-> "idle"]
    /\ req' = [t \in Threads |-> NoReq]
    /\ content' = [t \in Threads |-> Unbound]
    /\ delivered' = [t \in Threads |-> <<>>]
    /\ result' = [t \in Threads |-> "none"]
    /\ resp' = [t \in Threads |-> "none"]
    /\ alone' = [t \in Threads |-> TRUE]
    /\ pre' = [t \in Threads |-> NoPre]
    /\ prev' = NoPrev
    /\ UNCHANGED <<clock, remote, file>>

\* The process is killed and started again: TelegramBotApp.__init__ (line
\* 174) builds a DocumentState, whose load() raises on a file json.load
\* cannot parse, and then the process does not come up.
Restart ==
    /\ running
    /\ running' = Loadable(file)
    /\ state' = IF Loadable(file) THEN load(file) ELSE DocumentState
    /\ pc' = [t \in Threads |-> "idle"]
    /\ req' = [t \in Threads |-> NoReq]
    /\ content' = [t \in Threads |-> Unbound]
    /\ delivered' = [t \in Threads |-> <<>>]
    /\ result' = [t \in Threads |-> "none"]
    /\ resp' = [t \in Threads |-> "none"]
    /\ alone' = [t \in Threads |-> TRUE]
    /\ pre' = [t \in Threads |-> NoPre]
    /\ prev' = NoPrev
    /\ UNCHANGED <<clock, remote, file>>

Next ==
    \/ Tick
    \/ RemoteChange
    \/ Restart
    \/ job
    \/ \E t \in Workers, chat \in Chats :
          \/ \E name \in Commands : update(t, "command", name, chat)
          \/ \E data \in CallbackData : update(t, "callback", data, chat)
    \/ \E t \in Workers :
          \/ command_handler(t)
          \/ callback_handler(t)
    \/ \E t \in Threads :
          \/ check_and_send(t)
          \/ force_send(t)
          \/ Finish(t)

Spec == Init /\ [][Next]_vars

(***************************************************************************)
(* Properties.  A cycle's own effect is stated for a cycle that ran alone  *)
(* (no other cycle in flight from its first step on); cycles that overlap  *)
(* are the subject of Serialized.                                          *)
(***************************************************************************)
\* Thread t ran op alone and the call has returned.
ReturnedAlone(t, op) == pc[t] = "returned" /\ alone[t] /\ req[t].op = op

\* The call before the cycle of t was a check_and_send() that ran alone and
\* returned, and no other cycle ran between the two.
FollowsCheck(t) == pre[t].prev.result \in {"unchanged", "sent"}

\* C1: change detection.  When a check_and_send() that fetched A is followed
\* by a check_and_send() that fetches B # A, the second sends exactly one
\* notification, carrying B, and ends with last_hash = _hash(B).
ChangeDetection ==
    \A t \in Threads :
        ReturnedAlone(t, "check_and_send") /\ FollowsCheck(t)
            /\ pre[t].prev.content # content[t]
        => /\ Len(delivered[t]) = 1
           /\ delivered[t][1].body = content[t]
           /\ state.last_hash = _hash(content[t])

ChangeDetectionWitness ==
    \E t \in Threads :
        /\ ReturnedAlone(t, "check_and_send") /\ FollowsCheck(t)
        /\ pre[t].prev.content # content[t]
        /\ pre[t].prev.result = "sent"
        /\ result[t] = "sent"

\* C2: idempotent re-check.  Two check_and_send() calls in succession that
\* fetch the same text send one notification in total, none when the digest
\* of the text was already in last_hash before the first call, and last_hash
\* after the second call is what it was after the first.
IdempotentRecheck ==
    \A t \in Threads :
        ReturnedAlone(t, "check_and_send") /\ FollowsCheck(t)
            /\ pre[t].prev.content = content[t]
        => /\ pre[t].prev.sent + Len(delivered[t])
                = (IF pre[t].prev.hash_before = _hash(content[t]) THEN 0 ELSE 1)
           /\ state.last_hash = pre[t].prev.hash_after

IdempotentRecheckWitness ==
    \E t \in Threads :
        /\ ReturnedAlone(t, "check_and_send") /\ FollowsCheck(t)
        /\ pre[t].prev.content = content[t]
        /\ pre[t].prev.sent = 1
        /\ result[t] = "unchanged"

\* C3: a forced send always notifies.  A force_send() whose fetch succeeded
\* has called the notifier with the fetched text, whatever last_hash was: it
\* raises only with the notifier's error, and when it returns it has
\* delivered the text once, last_hash is the digest of the text, last_send_at
\* is set and the file holds the state.
ForceSendNotifies ==
    \A t \in Threads :
        req[t].op = "force_send" /\ content[t] # Unbound
        => /\ pc[t] \in {"fs157", "fs159", "fs160", "fs161", "fs161w",
                         "returned", "raised"}
           /\ pc[t] = "raised" => result[t] = "DeliveryError"
           /\ pc[t] \notin {"fs157", "raised"}
                => delivered[t] = <<Document(content[t])>>
           /\ pc[t] = "returned" /\ alone[t]
                => /\ state.last_hash = _hash(content[t])
                   /\ state.last_send_at # None
                   /\ file = dump(state)

ForceSendNotifiesWitness ==
    \E t \in Threads :
        /\ ReturnedAlone(t, "force_send")
        /\ pre[t].state.last_hash = _hash(content[t])
        /\ Len(delivered[t]) = 1

\* C4: authorization of commands.  A send_now or check command from a chat
\* other than the configured one changes neither the state nor the file,
\* fetches and sends nothing and is answered with an access-denied response;
\* from the configured chat it runs force_send() or check_and_send().
CommandAuthorization ==
    [][\A t \in Workers :
          command_handler(t) /\ req[t].handler \in {"send_now", "check"}
          => IF _is_authorized(req[t].chat)
             THEN pc'[t] = (IF req[t].handler = "check" THEN "cs130" ELSE "fs154")
             ELSE /\ pc'[t] = "handled"
                  /\ UNCHANGED <<state, file, content, delivered>>
                  /\ resp'[t] = "access denied"]_vars

\* C5: menu selections.  The callback data status, send_now and check run
\* what the commands of the same name run, with the same check of the chat:
\* a send_now or check selection from another chat enters neither
\* force_send() nor check_and_send(), and other data run nothing.
MenuSelections ==
    [][\A t \in Workers :
          callback_handler(t)
          => LET d == req[t].handler
                 ok == _is_authorized(req[t].chat)
             IN /\ d = "status" => pc'[t] = "handled" /\ resp'[t] = "status"
                /\ d = "send_now" /\ ok
                     => pc'[t] = "fs154" /\ req'[t].op = "force_send"
                /\ d = "check" /\ ok
                     => pc'[t] = "cs130" /\ req'[t].op = "check_and_send"
                /\ ~(d \in {"send_now", "check"} /\ ok)
                     => /\ pc'[t] = "handled"
                        /\ UNCHANGED <<state, file, content, delivered>>
                /\ d \notin {"status", "send_now", "check"}
                     => result'[t] = "ignored"]_vars

MenuSelectionsWitness ==
    \E t \in Workers :
        /\ pc[t] = "handled" /\ req[t].via = "callback"
        /\ req[t].handler \in {"send_now", "check"}
        /\ ~_is_authorized(req[t].chat)
        /\ result[t] = "ApiError"

\* C6: durability.  When check_and_send() or force_send() has returned,
\* with the document unchanged or sent, load() of the file yields the three
\* fields of the state in memory.
StateDurability ==
    \A t \in Threads :
        pc[t] = "returned" /\ alone[t]
        => Loadable(file) /\ load(file) = state

StateDurabilityWitness ==
    \E t \in Threads :
        /\ ReturnedAlone(t, "check_and_send")
        /\ result[t] = "unchanged"
        /\ state # pre[t].state
        /\ state.last_send_at # None

\* C7, as claimed: after every cycle in a sequence of cycles, also one whose
\* delivery failed after the fetch, last_hash is the digest of the text
\* fetched last.
HashOfLastFetch ==
    \A t \in Threads :
        pc[t] \in {"returned", "raised"} /\ alone[t] /\ content[t] # Unbound
        => state.last_hash = _hash(content[t])

\* C7, amended: after every cycle that returns, last_hash is the digest of
\* the text the cycle fetched; a cycle whose delivery failed leaves last_hash
\* as it was before the cycle.
HashOfLastDelivered ==
    \A t \in Threads :
        alone[t] /\ content[t] # Unbound
        => /\ pc[t] = "returned" => state.last_hash = _hash(content[t])
           /\ pc[t] = "raised" => state.last_hash = pre[t].state.last_hash

HashOfLastDeliveredWitness ==
    \E t \in Threads :
        /\ pc[t] = "raised" /\ alone[t] /\ result[t] = "DeliveryError"
        /\ state.last_hash # None
        /\ state.last_hash # _hash(content[t])

\* C8: serialization.  At most one cycle, check_and_send() or force_send(),
\* is in flight at any time.
Serialized == Cardinality({t \in Threads : InCycle(t)}) <= 1

FetchFailureConsistent ==
    \A t \in Threads :
        /\ pc[t] = "raised" /\ result[t] = "FetchError" /\ alone[t]
        /\ req[t].op = "check_and_send"
        /\ Loadable(pre[t].file) /\ load(pre[t].file) = pre[t].state
        => /\ delivered[t] = <<>>
           /\ state.last_hash = pre[t].state.last_hash
           /\ state.last_send_at = pre[t].state.last_send_at
           /\ Loadable(file) /\ load(file) = state

\* C11: force_send() is all-or-nothing on failure.  When the fetch or the
\* delivery of a force_send() failed, either none of last_check_at,
\* last_send_at and last_hash has changed, or all three are those of the
\* new attempt.
ForceSendAllOrNothing ==
    \A t \in Threads :
        pc[t] = "raised" /\ alone[t] /\ req[t].op = "force_send"
        => \/ state = pre[t].state
           \/ /\ state.last_check_at # pre[t].state.last_check_at
              /\ state.last_send_at # pre[t].state.last_send_at
              /\ state.last_hash = _hash(content[t])

\* C12: save() is atomic with respect to a crash.  Whenever the process is
\* killed, also in the middle of save(), load() can read the file and the
\* process comes up again.
SaveAtomic == running

\* C13: last_send_at changes only where a notification was delivered.  An
\* operation changes it only at line 143, after a check_and_send() that
\* found the digest different from last_hash delivered the text, or at line
\* 160, after a force_send() delivered it; a check_and_send() that found the
\* document unchanged, a cycle that failed, and start and status leave it as
\* it was.
SendAtOnlyOnDelivery ==
    [][/\ state'.last_send_at # state.last_send_at /\ ~Restart
          => \E t \in Threads :
                /\ pc[t] \in {"cs143", "fs160"} /\ pc'[t] # pc[t]
                /\ delivered[t] = <<Document(content[t])>>
                /\ state'.last_send_at = _now
                /\ pc[t] = "cs143" /\ alone[t]
                     => pre[t].state.last_hash # _hash(content[t])
       /\ \A t \in Threads :
             /\ alone'[t] /\ pc[t] # pc'[t]
             /\ \/ pc'[t] = "raised"
                \/ pc'[t] = "returned" /\ result'[t] = "unchanged"
             => state'.last_send_at = pre'[t].state.last_send_at
       /\ \A t \in Workers :
             pc'[t] = "handled" /\ pc[t] # "handled"
             => state'.last_send_at = state.last_send_at]_vars

SendAtOnlyOnDeliveryWitness ==
    \E t \in Threads :
        /\ ReturnedAlone(t, "check_and_send") /\ result[t] = "unchanged"
        /\ state.last_send_at # None
        /\ state.last_check_at # state.last_send_at
        /\ state.last_check_at # pre[t].state.last_check_at

\* C14: every send_now from the configured chat ends with a report to the
\* invoker: of success when force_send() returned, of the error when it
\* raised.
SendNowReports ==
    \A t \in Workers :
        req[t].handler = "send_now" /\ req[t].op = "force_send"
        => /\ pc[t] = "returned" => resp[t] = "completed"
           /\ pc[t] = "raised" => resp[t] = "error"

\* C15: failure surfacing.  A fetch or delivery failure in a cycle called by
\* the check or send_now handler (command or menu selection) is answered
\* with an error message to the invoker, one in the scheduler's cycle with no
\* message; in both cases the process stays up and the thread goes on to
\* serve the next trigger.
FailureSurfacing ==
    \A t \in Threads :
        pc[t] = "raised"
        => /\ result[t] \in {"FetchError", "DeliveryError"}
           /\ resp[t] = (IF t = Scheduler THEN "none" ELSE "error")
           /\ running
           /\ ENABLED Finish(t)

FailureSurfacingWitness ==
    \E t \in Workers :
        /\ pc[t] = "raised" /\ req[t].via = "callback" /\ resp[t] = "error"
        /\ pc[Scheduler] = "raised" /\ resp[Scheduler] = "none"

\* The states a DocumentState takes: each field None, a time or a digest.
Times == {<<"time", n>> : n \in 1..MaxClock}
States ==
    [last_check_at : Times \cup {None}, last_send_at : Times \cup {None},
     last_hash : {_hash(c) : c \in Contents} \cup {None}]

\* C16: load() at startup.  With no file the three fields are None and the
\* process comes up; with the file save() wrote for a state, the fields are
\* those of that state; with a file json.load cannot parse the process does
\* not come up, and no default state stands in for the file.
LoadAtStartup ==
    [][Restart
       => /\ file = NoFile => running' /\ state' = DocumentState
          /\ \A s \in States : file = dump(s) => running' /\ state' = s
          /\ file = EmptyFile => ~running'
          /\ file = NoFile \/ file = EmptyFile \/ \E s \in States : file = dump(s)]_vars

LoadAtStartupWitness == ~running /\ file = EmptyFile

\* C17: read-only commands.  start and status, as commands or as the status
\* selection of the menu, from any chat, change neither the state nor the
\* file, fetch nothing and send no document; status answers every chat.
ReadOnlyCommands ==
    [][\A t \in Workers :
          /\ command_handler(t) \/ callback_handler(t)
          /\ req[t].handler \in {"start", "status"}
          => /\ UNCHANGED <<state, file, content, delivered>>
             /\ pc'[t] = "handled"
             /\ resp'[t] = (IF req[t].handler = "status" THEN "status" ELSE "menu")]_vars

ReadOnlyCommandsWitness ==
    \E t \in Workers :
        /\ pc[t] = "handled" /\ req[t].via = "callback"
        /\ req[t].handler = "status" /\ resp[t] = "status"
        /\ ~_is_authorized(req[t].chat)
        /\ state.last_hash # None

\* C18: no duplicate under concurrent triggers.  When the scheduler's
\* check_and_send() and a handler's check_and_send() both fetch the same
\* changed text, the text is delivered once.
NoDuplicateNotification ==
    \A t \in Workers :
        /\ req[t].op = "check_and_send" /\ req[Scheduler].op = "check_and_send"
        /\ content[t] # Unbound /\ content[t] = content[Scheduler]
        => Len(delivered[t]) + Len(delivered[Scheduler]) <= 1

\* C19: a failed delivery does not lose a change.  A check_and_send() whose
\* delivery failed leaves last_hash and last_send_at, in memory and in the
\* file, as they were; and the check_and_send() that follows it, fetches the
\* same text and returns has delivered that text.
DeliveryFailureKeepsChange ==
    \A t \in Threads :
        /\ pc[t] = "raised" /\ alone[t] /\ result[t] = "DeliveryError"
             /\ req[t].op = "check_and_send"
           => /\ state.last_hash = pre[t].state.last_hash
              /\ state.last_send_at = pre[t].state.last_send_at
              /\ state.last_hash # _hash(content[t])
              /\ file = pre[t].file
        /\ ReturnedAlone(t, "check_and_send")
             /\ pre[t].prev.result = "DeliveryError"
             /\ pre[t].prev.content = content[t]
           => /\ delivered[t] = <<Document(content[t])>>
              /\ state.last_hash = _hash(content[t])

DeliveryFailureKeepsChangeWitness ==
    \E t \in Threads :
        /\ ReturnedAlone(t, "check_and_send")
        /\ pre[t].prev.result = "DeliveryError"
        /\ pre[t].prev.content = content[t]
        /\ pre[t].state.last_hash # None

\* C20: the shape of the persisted state.  In every file save() has written,
\* last_hash is null exactly when last_send_at is null, and last_check_at is
\* set whenever one of them is.
PersistedShape ==
    file # NoFile /\ file # EmptyFile
    => LET s == load(file)
       IN /\ s.last_hash = None <=> s.last_send_at = None
          /\ s.last_hash # None => s.last_check_at # None

====
